---- MODULE Spec2Model ----
(***************************************************************************)
(* Two-phase nurse scheduling (kt-git-1/nurse-scheduling2).                *)
(*                                                                         *)
(* The source's identifiers are Japanese; TLA+ strings are ASCII, so each  *)
(* code and name is written in romaji:                                     *)
(*   shift codes  休 "kyu"   夜 "yoru"  早 "haya"   残 "zan"   〇 "maru"    *)
(*                × "batsu"  /訪 "/hou" 早日 "hayabi" 残日 "zanbi"          *)
(*                /休 "/kyu" 休/ "kyu/" 2・CT "2.CT" 訪 "hou"               *)
(*                (1 2 3 4 CT F 1/ 2/ 3/ 4/ are unchanged)                 *)
(*   nurses       樋渡 Hiwatashi 中山 Nakayama 三好 Miyoshi 川原田 Kawaharada *)
(*                板川 Itagawa 友枝 Tomoeda 奥平 Okuhira 前野 Maeno          *)
(*                森園 Morizono 御書 Goshyo 久保 Kubo 小嶋 Kojima            *)
(*                久保（千） KuboSen 田浦 Taura                             *)
(*   weekdays     月火水木金土日  Mon Tue Wed Thu Fri Sat Sun               *)
(* Indices are 1-based here (nurse n, shift s) where Python's are 0-based; *)
(* the order of the enumerations is the source's.                          *)
(***************************************************************************)
EXTENDS Integers, Sequences, FiniteSets, TLC

VARIABLES
    nurses,            \* NURSES: the roster (constants.py), data["nurses"]
    num_days,          \* NUM_DAYS, data["num_days"]
    shift_types,       \* SHIFT_TYPES, data["shift_types"]; SHIFT_CODE is its index map
    requests,          \* the parsed request table (df_requests)
    pc,                \* position of main()
    error,             \* the exception that ended the run, or "none"
    status,            \* backend status of main's Phase 1 solve
    initial_schedule,  \* main: initial_schedule
    status_inner,      \* backend status of the Phase 1 solve inside optimize_final_schedule
    initial_df,        \* optimize_final_schedule: initial_df (the Phase 2 anchor)
    status2,           \* backend status of the Phase 2 solve
    final_schedule,    \* main: final_schedule / validate_constraints: assignments
    violations,        \* validate_constraints: violations
    weights,           \* <<w1, w2, w3, w4, w5>> of add_soft_constraints
    cand,              \* a candidate valuation of the cube: the set of true x[(n, d, s)]
    sat,               \* the constraint groups of the built model that cand satisfies
    sched,             \* the schedule the extraction loop reads from cand
    night_shift_preferred, \* NIGHT_SHIFT_PREFERRED, data["night_shift_preferred"]
    flags,             \* per nurse, a value of four_penalty_n, has_night_n, no_four_n
    objective,         \* the value of weighted_penalties under cand
    accepted           \* whether cand and flags meet the constraints S4 adds

vars == <<nurses, num_days, shift_types, requests, pc, error, status, initial_schedule,
          status_inner, initial_df, status2, final_schedule, violations, weights, cand, sat, sched,
          night_shift_preferred, flags, objective, accepted>>

\* The state of add_soft_constraints examined on its own
soft == <<night_shift_preferred, flags, objective, accepted>>

-----------------------------------------------------------------------------
(* utils/constants.py *)

NURSES == <<"Hiwatashi", "Nakayama", "Miyoshi", "Kawaharada", "Itagawa", "Tomoeda",
            "Okuhira", "Maeno", "Morizono", "Goshyo", "Kubo", "Kojima", "KuboSen", "Taura">>

SHIFT_TYPES == <<"kyu", "yoru", "haya", "zan", "maru", "1", "2", "3", "4", "batsu",
                 "/hou", "CT", "hayabi", "zanbi", "1/", "2/", "3/", "4/", "/kyu", "kyu/",
                 "F", "2.CT">>

NUM_DAYS == 31

NIGHT_SHIFT_PREFERRED == <<>>

-----------------------------------------------------------------------------
(* Python list and dict primitives *)

Range(seq) == {seq[i] : i \in 1..Len(seq)}

\* `c in seq`
In(c, seq) == c \in Range(seq)

\* seq.index(c), defined when c is in seq: the first position holding c
Index(seq, c) == CHOOSE i \in 1..Len(seq) : seq[i] = c /\ \A j \in 1..(i - 1) : seq[j] # c

\* SHIFT_CODE.get(code): the index of code, 0 standing for None
ShiftCodeGet(st, code) == IF In(code, st) THEN Index(st, code) ELSE 0

\* data["nurses"].index(name) if name in data["nurses"] else None (0)
NurseIdx(data, name) == IF In(name, data.nurses) THEN Index(data.nurses, name) ELSE 0

Days(data) == 1..data.num_days
Ns(data) == 1..Len(data.nurses)
Ss(data) == 1..Len(data.shift_types)

weekdays == <<"Mon", "Tue", "Wed", "Thu", "Fri", "Sat", "Sun">>

\* weekdays[(d - 1) % 7]
Wd(d) == weekdays[((d - 1) % 7) + 1]

-----------------------------------------------------------------------------
(* The CP model: a set of linear constraints over the boolean cube.       *)
(* A constraint is sum(pos) - sum(neg) REL rhs, tagged with its group g.   *)

Lin(g, kind, pos, neg, rhs) == [g |-> g, kind |-> kind, pos |-> pos, neg |-> neg, rhs |-> rhs]

\* model.Add(x[v] == b)
Fix(g, v, b) == Lin(g, "eq", {v}, {}, b)

-----------------------------------------------------------------------------
(* initial_assignment.py: build_hard_constraints                           *)

NaN == "nan"

\* requests.loc[nurse, col] is read only for a nurse in requests.index and a
\* column in requests.columns
Requested(data, n, d) ==
    /\ data.nurses[n] \in data.requests.index
    /\ d \in data.requests.columns
    /\ data.requests.val[<<data.nurses[n], d>>] # NaN
    /\ In(data.requests.val[<<data.nurses[n], d>>], data.shift_types)

\* The exception build_hard_constraints raises on this data, "none" if it
\* returns: SHIFT_CODE["yoru"], SHIFT_CODE["batsu"] (KeyError), the .index()
\* fallbacks of hayabi, zanbi and (on the first Saturday) 2/ (ValueError),
\* x[(n, d, None)] where SHIFT_CODE.get("kyu") is None (KeyError).
BuildError(data) ==
    LET st == data.shift_types IN
    IF ~In("yoru", st) THEN "KeyError"
    ELSE IF ~In("batsu", st) THEN "KeyError"
    ELSE IF ~In("hayabi", st) THEN "ValueError"
    ELSE IF ~In("zanbi", st) THEN "ValueError"
    ELSE IF ~In("2/", st) /\ \E d \in Days(data) : Wd(d) = "Sat" THEN "ValueError"
    ELSE IF ~In("kyu", st) /\ Ns(data) # {} /\ Days(data) # {} THEN "KeyError"
    ELSE "none"

night_idx(data) == Index(data.shift_types, "yoru")
off_idx(data) == Index(data.shift_types, "batsu")
early_idx(data) == Index(data.shift_types, "hayabi")
late_idx(data) == Index(data.shift_types, "zanbi")
rest_idx(data) == ShiftCodeGet(data.shift_types, "kyu")

\* [SHIFT_CODE.get(code) for code in [...] if code in SHIFT_CODE]
CodeIdxs(data, codes) == {Index(data.shift_types, c) : c \in {k \in codes : In(k, data.shift_types)}}

outpatient == {"1", "2", "3", "4", "CT", "F", "2/"}
ward == {"maru"}
allowed == {"yoru", "hayabi", "zanbi", "kyu", "batsu"}
banned == {"1", "2", "3", "4", "CT", "F", "2/", "maru"}

\* H1: each nurse has exactly one shift per day
H1(data) ==
    {Lin("H1", "eq", {<<n, d, s>> : s \in Ss(data)}, {}, 1) : n \in Ns(data), d \in Days(data)}

\* H2: nurse-specific restrictions (Itagawa, Miyoshi: no night; Goshyo: no
\* night, outpatient, hayabi, zanbi)
H2(data) ==
    LET itagawa == NurseIdx(data, "Itagawa")
        miyoshi == NurseIdx(data, "Miyoshi")
        goshyo == NurseIdx(data, "Goshyo")
    IN  {Fix("H2", <<n, d, night_idx(data)>>, 0) :
            n \in {itagawa, miyoshi, goshyo} \ {0}, d \in Days(data)}
        \cup
        {Fix("H2", <<goshyo, d, s>>, 0) :
            d \in (IF goshyo = 0 THEN {} ELSE Days(data)),
            s \in CodeIdxs(data, outpatient) \cup {early_idx(data), late_idx(data)}}

\* H3: Thu/Sun closed (only the allowed codes), Sat half day (banned codes)
H3(data) ==
    {Fix("H3", <<n, d, s>>, 0) :
        n \in Ns(data),
        d \in {e \in Days(data) : Wd(e) \in {"Thu", "Sun"}},
        s \in {t \in Ss(data) : data.shift_types[t] \notin allowed}}
    \cup
    {Fix("H3", <<n, d, s>>, 0) :
        n \in Ns(data),
        d \in {e \in Days(data) : Wd(e) = "Sat"},
        s \in {t \in Ss(data) : data.shift_types[t] \in banned}}

\* H4: outpatient >= 4 and ward >= 3 on Mon/Tue/Wed/Fri; one hayabi and one
\* zanbi on Thu/Sun; at least one 2/ on Sat
H4(data) ==
    {Lin("H4", "ge", {<<n, d, s>> : n \in Ns(data), s \in CodeIdxs(data, outpatient)}, {}, 4) :
        d \in {e \in Days(data) : Wd(e) \in {"Mon", "Tue", "Wed", "Fri"}}}
    \cup
    {Lin("H4", "ge", {<<n, d, s>> : n \in Ns(data), s \in CodeIdxs(data, ward)}, {}, 3) :
        d \in {e \in Days(data) : Wd(e) \in {"Mon", "Tue", "Wed", "Fri"}}}
    \cup
    {Lin("H4", "eq", {<<n, d, s>> : n \in Ns(data)}, {}, 1) :
        d \in {e \in Days(data) : Wd(e) \in {"Thu", "Sun"}},
        s \in {early_idx(data), late_idx(data)}}
    \cup
    {Lin("H4", "ge", {<<n, d, Index(data.shift_types, "2/")>> : n \in Ns(data)}, {}, 1) :
        d \in {e \in Days(data) : Wd(e) = "Sat"}}

\* H5: exactly one night shift per day
H5(data) ==
    {Lin("H5", "eq", {<<n, d, night_idx(data)>> : n \in Ns(data)}, {}, 1) : d \in Days(data)}

\* H6 with the inequality turned round: x[n, d + 1, off] <= x[n, d, night]
H6Reversed(data) ==
    {Lin("H6", "le", {<<n, d + 1, off_idx(data)>>}, {<<n, d, night_idx(data)>>}, 0) :
        n \in Ns(data), d \in 1..(data.num_days - 1)}

\* H6: x[n, d, night] <= x[n, d + 1, off] for d in range(1, num_days)
H6(data) ==
    {Lin("H6", "le", {<<n, d, night_idx(data)>>}, {<<n, d + 1, off_idx(data)>>}, 0) :
        n \in Ns(data), d \in 1..(data.num_days - 1)}

\* H7: last month's night nurses are off on day 1
H7(data) ==
    {Fix("H7", <<NurseIdx(data, nurse), 1, off_idx(data)>>, 1) :
        nurse \in {k \in Range(data.prev_month_night) : In(k, data.nurses)}}

\* H8: at least 4 rest days per nurse
H8(data) ==
    {Lin("H8", "ge", {<<n, d, rest_idx(data)>> : d \in Days(data)}, {}, 4) : n \in Ns(data)}

\* H9 pinning the indicator before the requested one (an index off by one)
H9OffByOne(data) ==
    {Fix("H9", <<n, d, Index(data.shift_types, data.requests.val[<<data.nurses[n], d>>]) - 1>>, 1) :
        <<n, d>> \in {p \in Ns(data) \X Days(data) : Requested(data, p[1], p[2])}}

\* H9: every present, valid request is pinned
H9(data) ==
    {Fix("H9", <<n, d, Index(data.shift_types, data.requests.val[<<data.nurses[n], d>>])>>, 1) :
        <<n, d>> \in {p \in Ns(data) \X Days(data) : Requested(data, p[1], p[2])}}

\* H10: Kubo may only take CT and 2
H10(data) ==
    LET kubo_idx == NurseIdx(data, "Kubo")
        allowed_kubo == CodeIdxs(data, {"CT", "2"})
    IN  {Fix("H10", <<kubo_idx, d, s>>, 0) :
            d \in (IF kubo_idx = 0 THEN {} ELSE Days(data)),
            s \in Ss(data) \ allowed_kubo}

\* the loop of H11: the first d whose weekday is Thu for the second time, 0 (None) if none
second_thu(data) ==
    LET thus == {d \in Days(data) : Wd(d) = "Thu"}
        seconds == {d \in thus : Cardinality({e \in thus : e <= d}) = 2}
    IN  IF seconds = {} THEN 0 ELSE CHOOSE d \in seconds : TRUE

\* H11: Kubo takes the visit code on the second Thursday; the code looked up is "hou"
H11(data) ==
    LET kubo_idx == NurseIdx(data, "Kubo") IN
    IF kubo_idx # 0 /\ second_thu(data) # 0 /\ In("hou", data.shift_types)
    THEN {Fix("H11", <<kubo_idx, second_thu(data), Index(data.shift_types, "hou")>>, 1)}
    ELSE {}

\* H12 adds, per day, ct_sum in 0..2 with ct_sum == x[miyoshi, d, CT] + x[maeno, d, CT]
\* and a hint ct_sum = 1: a fresh variable defined by an equation it can always
\* meet and a hint, so no constraint on the cube. The days that get the hint:
H12Hints(data) ==
    IF /\ NurseIdx(data, "Kubo") # 0 /\ ShiftCodeGet(data.shift_types, "CT") # 0
       /\ NurseIdx(data, "Miyoshi") # 0 /\ NurseIdx(data, "Maeno") # 0
    THEN Days(data) ELSE {}

\* The constraints build_hard_constraints adds when it returns
build_hard_constraints(data) ==
    H1(data) \cup H2(data) \cup H3(data) \cup H4(data) \cup H5(data) \cup H6(data)
    \cup H7(data) \cup H8(data) \cup H9(data) \cup H10(data) \cup H11(data)

-----------------------------------------------------------------------------
(* The solving backend (cp_model.CpSolver): what solver.Solve(model) and   *)
(* solver.Value(x) answer for a model, by the semantics of its constraints *)

\* The value of sum(pos) - sum(neg) under valuation v (the set of true variables)
Lhs(c, v) == Cardinality(c.pos \cap v) - Cardinality(c.neg \cap v)

\* v satisfies the linear constraint c
LinSat(c, v) ==
    CASE c.kind = "eq" -> Lhs(c, v) = c.rhs
      [] c.kind = "ge" -> Lhs(c, v) >= c.rhs
      [] c.kind = "le" -> Lhs(c, v) <= c.rhs

\* Variables a single constraint forces to 0, and to 1
Fixed0(cons) ==
    UNION {c.pos : c \in {k \in cons : k.kind \in {"eq", "le"} /\ k.neg = {} /\ k.rhs = 0}}
Fixed1(cons) ==
    UNION {c.pos : c \in {k \in cons : k.kind \in {"eq", "ge"} /\ k.neg = {}
                                       /\ k.rhs = Cardinality(k.pos)}}

\* c can still be met when the variables of f0 are 0 and those of f1 are 1
BoundOK(c, f0, f1) ==
    LET lo == Cardinality(c.pos \cap f1) - Cardinality(c.neg \ f0)
        hi == Cardinality(c.pos \ f0) - Cardinality(c.neg \cap f1)
    IN  CASE c.kind = "eq" -> lo <= c.rhs /\ c.rhs <= hi
          [] c.kind = "ge" -> hi >= c.rhs
          [] c.kind = "le" -> lo <= c.rhs

\* Presolve: the forced values contradict each other or some constraint
Refuted(cons) ==
    LET f0 == Fixed0(cons)
        f1 == Fixed1(cons)
    IN  f0 \cap f1 # {} \/ \E c \in cons : ~BoundOK(c, f0, f1)

Cells(data) == Ns(data) \X Days(data)
Cube(data) == {<<n, d, s>> : n \in Ns(data), d \in Days(data), s \in Ss(data)}

\* Every cell carries an exactly-one constraint over its indicators
OneHot(cons, data) ==
    \A p \in Cells(data) : \E c \in cons :
        c.kind = "eq" /\ c.neg = {} /\ c.rhs = 1 /\ c.pos = {<<p[1], p[2], s>> : s \in Ss(data)}

\* The valuations the search has to look at: one indicator per cell when
\* the model says so, every subset of the cube otherwise
SearchSpace(cons, data) ==
    IF OneHot(cons, data)
    THEN {{<<p[1], p[2], f[p]>> : p \in Cells(data)} : f \in [Cells(data) -> Ss(data)]}
    ELSE SUBSET Cube(data)

\* All valuations of the cube that satisfy every constraint
Solutions(cons, data) ==
    IF Refuted(cons) THEN {}
    ELSE {v \in SearchSpace(cons, data) : \A c \in cons : LinSat(c, v)}

NoValue == "none"

\* solver.Solve(model) on a model with solutions sols, the optimal ones being best:
\* a status and the valuation solver.Value reads. OPTIMAL and FEASIBLE carry a
\* solution; INFEASIBLE is answered only when there is none; UNKNOWN (the time
\* limit) is always possible, with an incumbent or with no valuation at all.
Solve(sols, best) ==
    {[status |-> "OPTIMAL", val |-> v] : v \in best}
    \cup {[status |-> "FEASIBLE", val |-> v] : v \in sols}
    \cup {[status |-> "UNKNOWN", val |-> v] : v \in sols}
    \cup {[status |-> "UNKNOWN", val |-> NoValue]}
    \cup (IF sols = {} THEN {[status |-> "INFEASIBLE", val |-> NoValue]} ELSE {})

\* solver.Value(x[...]) when the backend holds no valuation either raises or
\* reads 0, depending on the backend's version: both outcomes are kept.

-----------------------------------------------------------------------------
(* Schedules (the DataFrame df_result): df[n][d] is the code of nurse n on *)
(* day d, "" the blank the frame is created with                           *)

Blank == ""

\* pd.DataFrame(index=NURSES, columns=day_1..day_N, data="")
BlankFrame(data) == [n \in Ns(data) |-> [d \in Days(data) |-> Blank]]

\* df_result.loc[:, :] = "kyu"
AllRest(data) == [n \in Ns(data) |-> [d \in Days(data) |-> "kyu"]]

\* The extraction loop: the first code, in enumeration order, whose indicator
\* is true; the cell stays blank when none is
Extract(v, data) ==
    [n \in Ns(data) |-> [d \in Days(data) |->
        LET on == {s \in Ss(data) : <<n, d, s>> \in v}
        IN  IF on = {} THEN Blank
            ELSE data.shift_types[CHOOSE s \in on : \A t \in on : s <= t]]]

NoFrame == <<>>

Ret(st, df, err) == [status |-> st, df |-> df, error |-> err]

\* The part of solve_initial_model after solver.Solve: status in (OPTIMAL,
\* FEASIBLE, UNKNOWN) reads the valuation, anything else is the all-rest fallback
Phase1Read(o, data) ==
    IF o.status \in {"OPTIMAL", "FEASIBLE", "UNKNOWN"}
    THEN IF o.val = NoValue
         THEN {Ret(o.status, Extract({}, data), "none"), Ret(o.status, NoFrame, "RuntimeError")}
         ELSE {Ret(o.status, Extract(o.val, data), "none")}
    ELSE {Ret(o.status, AllRest(data), "none")}

\* solve_initial_model: every (status, returned frame, exception) it can end with
solve_initial_model(data) ==
    IF BuildError(data) # "none" THEN {Ret("none", NoFrame, BuildError(data))}
    ELSE LET sols == Solutions(build_hard_constraints(data), data)
         IN  UNION {Phase1Read(o, data) : o \in Solve(sols, sols)}

-----------------------------------------------------------------------------
(* refine_schedule.py: add_soft_constraints                                *)

w1 == 3
w2 == 2
w3 == 1
w4 == 2
w5 == 1

Abs(i) == IF i < 0 THEN -i ELSE i

\* sum(x[(n, d, s)] for d in range(1, num_days + 1))
CountOf(v, data, n, s) == Cardinality({d \in Days(data) : <<n, d, s>> \in v})

\* S1's off_count: the days of nurse n on "kyu" or "batsu"
off_count(v, data, n) ==
    CountOf(v, data, n, Index(data.shift_types, "kyu"))
    + CountOf(v, data, n, Index(data.shift_types, "batsu"))

night_count(v, data, n) == CountOf(v, data, n, Index(data.shift_types, "yoru"))
four_count(v, data, n) == CountOf(v, data, n, Index(data.shift_types, "4"))

\* S3's total: the cells, over all nurses and days, that hold shift s
total(v, data, s) == Cardinality({p \in Cells(data) : <<p[1], p[2], s>> \in v})
total_slots(data) == Len(data.nurses) * data.num_days
avg_per_shift(data) == total_slots(data) \div Len(data.shift_types)

Pen(name, val) == [name |-> name, val |-> val]

\* The list `penalties` under valuation v: each penalty variable with the
\* least value the soft constraints leave it (S1, S4, S5 are equalities;
\* S2, S3 bound their variable from below)
S1(v, data) == [n \in Ns(data) |-> Pen("off_diff", Abs(off_count(v, data, n) - 13))]
S2(v, data) ==
    LET all == [n \in Ns(data) |-> [n |-> n, p |-> Pen("night_diff", Abs(night_count(v, data, n) - 5))]]
        pref == SelectSeq(all, LAMBDA e : In(data.nurses[e.n], data.night_shift_preferred))
    IN  [i \in 1..Len(pref) |-> pref[i].p]
S3(v, data) == [s \in Ss(data) |-> Pen("shift_diff", Abs(total(v, data, s) - avg_per_shift(data)))]
S4(v, data) ==
    IF In("4", data.shift_types)
    THEN [n \in Ns(data) |->
            Pen("four_penalty",
                IF night_count(v, data, n) >= 1 /\ four_count(v, data, n) = 0 THEN 1 ELSE 0)]
    ELSE <<>>
\* S4's constraints for nurse n without the clause enforced when the flag is
\* false (the AddBoolOr line left out)
S4ConstraintsOneWay(v, data, n, f) ==
    /\ f.has_night => night_count(v, data, n) >= 1
    /\ ~f.has_night => night_count(v, data, n) < 1
    /\ f.no_four => four_count(v, data, n) = 0
    /\ ~f.no_four => four_count(v, data, n) # 0
    /\ f.four_penalty => (f.has_night /\ f.no_four)

\* The constraints S4 adds for nurse n, on the valuation v of the cube and the
\* values f of flag (four_penalty), has_night and no_four: each Add and each
\* AddBoolAnd / AddBoolOr holds when its OnlyEnforceIf literal is true
S4Constraints(v, data, n, f) ==
    /\ f.has_night => night_count(v, data, n) >= 1
    /\ ~f.has_night => night_count(v, data, n) < 1
    /\ f.no_four => four_count(v, data, n) = 0
    /\ ~f.no_four => four_count(v, data, n) # 0
    /\ f.four_penalty => (f.has_night /\ f.no_four)
    /\ ~f.four_penalty => (~f.has_night \/ ~f.no_four)

\* S4 is added only when "4" is a code of the enumeration
S4Holds(v, data, fl) ==
    In("4", data.shift_types) => \A n \in Ns(data) : S4Constraints(v, data, n, fl[n])

S5(v, data) ==
    LET cells == [i \in 1..(Len(data.nurses) * data.num_days) |->
                    <<((i - 1) \div data.num_days) + 1, ((i - 1) % data.num_days) + 1>>]
        anchored == SelectSeq(cells,
                        LAMBDA c : In(data.initial_solution[c[1]][c[2]], data.shift_types))
    IN  [i \in 1..Len(anchored) |->
            Pen("change",
                IF <<anchored[i][1], anchored[i][2],
                     Index(data.shift_types, data.initial_solution[anchored[i][1]][anchored[i][2]])>> \in v
                THEN 0 ELSE 1)]

penalties(v, data) == S1(v, data) \o S2(v, data) \o S3(v, data) \o S4(v, data) \o S5(v, data)

\* sum(pens[lo:hi]) of Python (0-based, hi exclusive, clipped to the list)
SumSeq(vals) ==
    LET RECURSIVE Go(_)
        Go(i) == IF i > Len(vals) THEN 0 ELSE vals[i] + Go(i + 1)
    IN  Go(1)
SliceSum(pens, lo, hi) ==
    SumSeq([i \in 1..Len(pens) |-> IF lo < i /\ i <= hi THEN pens[i].val ELSE 0])
NamedSum(pens, name) ==
    SumSeq([i \in 1..Len(pens) |-> IF pens[i].name = name THEN pens[i].val ELSE 0])

\* weighted_penalties: the expression handed to model.Minimize
weighted_penalties(v, data) ==
    LET pens == penalties(v, data)
        N == Len(data.nurses)
        w == data.weights
    IN  SliceSum(pens, 0, N) * w[1]
        + SliceSum(pens, N, N * 2) * w[2]
        + SliceSum(pens, N * 2, N * 2 + Len(data.shift_types)) * w[3]
        + NamedSum(pens, "four_penalty") * w[4]
        + NamedSum(pens, "change") * w[5]

\* The domains of the penalty variables: off_diff and night_diff live in
\* 0..num_days (AbsEquality and the two-sided bound need their value there),
\* shift_diff in 0..total_slots
SoftFeasible(v, data) ==
    /\ \A i \in 1..Len(S1(v, data)) : S1(v, data)[i].val <= data.num_days
    /\ \A i \in 1..Len(S2(v, data)) : S2(v, data)[i].val <= data.num_days
    /\ \A i \in 1..Len(S3(v, data)) : S3(v, data)[i].val <= total_slots(data)

-----------------------------------------------------------------------------
(* refine_schedule.py: optimize_final_schedule, after its call of          *)
(* solve_initial_model                                                     *)

\* status in (OPTIMAL, FEASIBLE) reads the valuation; otherwise the blank frame
\* is returned as it was created
Phase2Read(o, data) ==
    IF o.status \in {"OPTIMAL", "FEASIBLE"}
    THEN Ret(o.status, Extract(o.val, data), "none")
    ELSE Ret(o.status, BlankFrame(data), "none")

optimize_final_schedule(data) ==
    IF BuildError(data) # "none" THEN {Ret("none", NoFrame, BuildError(data))}
    ELSE LET sols == {v \in Solutions(build_hard_constraints(data), data) : SoftFeasible(v, data)}
             best == {v \in sols : \A u \in sols :
                         weighted_penalties(v, data) <= weighted_penalties(u, data)}
         IN  {Phase2Read(o, data) : o \in Solve(sols, best)}

-----------------------------------------------------------------------------
(* utils/validator.py: validate_constraints                                *)

Viol(kind, nurse, day, shift) == [kind |-> kind, nurse |-> nurse, day |-> day, shift |-> shift]

\* "Invalid shift '{shift}' for {nurse} on {col}", one per column in column order
InvalidShifts(df, data, n) ==
    SelectSeq([d \in Days(data) |-> Viol("invalid", data.nurses[n], d, df[n][d])],
              LAMBDA r : ~In(r.shift, data.shift_types))

\* The night-rest check naming the night's own day instead of the day after
NightNotFollowedSameDay(df, data, n) ==
    LET max_day == data.num_days
        hits == SelectSeq([d \in Days(data) |-> d],
                    LAMBDA day : df[n][day] = "yoru" /\ day < max_day /\ df[n][day + 1] # "batsu")
    IN  [i \in 1..Len(hits) |-> Viol("night", data.nurses[n], hits[i], "batsu")]

\* "Night shift not followed by 'batsu' for {nurse} on day {day + 1}", in day order
NightNotFollowed(df, data, n) ==
    LET max_day == data.num_days
        hits == SelectSeq([d \in Days(data) |-> d],
                    LAMBDA day : df[n][day] = "yoru" /\ day < max_day /\ df[n][day + 1] # "batsu")
    IN  [i \in 1..Len(hits) |-> Viol("night", data.nurses[n], hits[i] + 1, "batsu")]

validate_constraints(df, data) ==
    LET RECURSIVE Go(_)
        Go(n) == IF n > Len(data.nurses) THEN <<>>
                 ELSE InvalidShifts(df, data, n) \o NightNotFollowed(df, data, n) \o Go(n + 1)
    IN  Go(1)

-----------------------------------------------------------------------------
(* The configurations and the run of main.py                               *)

MaxDays == 11

\* Rosters: selections of NURSES, in its order
Rosters ==
    {<<"Hiwatashi">>, <<"Kubo">>, <<"Miyoshi", "Itagawa">>, <<"Goshyo", "Kubo">>,
     <<"Miyoshi", "Maeno", "Kubo">>}

\* seq without its entries equal to c
Without(seq, c) == SelectSeq(seq, LAMBDA e : e # c)

\* Enumerations: the shipped one, the shipped one less one code that
\* build_hard_constraints looks up, and the shipped one with "hou"
DroppedCodes == {"yoru", "batsu", "hayabi", "zanbi", "kyu", "2/", "CT", "2", "4"}
ShiftTypeConfigs ==
    {SHIFT_TYPES, SHIFT_TYPES \o <<"hou">>} \cup {Without(SHIFT_TYPES, c) : c \in DroppedCodes}

\* A request table: its index (nurse names), its day columns, its cells
Table(index, columns, val) == [index |-> index, columns |-> columns, val |-> val]
NoRequests == Table({}, {}, <<>>)
OneRequest(nurse, d, code) == Table({nurse}, {d}, [p \in {<<nurse, d>>} |-> code])

RequestTables(ns) == {NoRequests} \cup {OneRequest(ns[1], 1, c) : c \in {"kyu", "yoru"}}

StabilityOnly == <<0, 0, 0, 0, 1>>

Data1 ==
    [nurses |-> nurses, num_days |-> num_days, shift_types |-> shift_types,
     requests |-> requests, prev_month_night |-> <<>>]

Data2 ==
    [nurses |-> nurses, num_days |-> num_days, shift_types |-> shift_types,
     requests |-> requests, prev_month_night |-> <<>>,
     night_shift_preferred |-> night_shift_preferred, initial_solution |-> initial_df,
     weights |-> weights]

\* The small rosters over every period up to MaxDays, and the shipped
\* roster with the shipped period
Configs == (Rosters \X (1..MaxDays)) \cup {<<NURSES, NUM_DAYS>>}

Init ==
    /\ \E c \in Configs : nurses = c[1] /\ num_days = c[2]
    /\ shift_types \in ShiftTypeConfigs
    /\ requests \in RequestTables(nurses)
    /\ weights \in {<<w1, w2, w3, w4, w5>>, StabilityOnly}
    /\ pc = "start"
    /\ error = "none"
    /\ status = "none" /\ status_inner = "none" /\ status2 = "none"
    /\ initial_schedule = NoFrame /\ initial_df = NoFrame /\ final_schedule = NoFrame
    /\ violations = <<>>
    /\ cand = {} /\ sat = {} /\ sched = NoFrame
    /\ night_shift_preferred = NIGHT_SHIFT_PREFERRED
    /\ flags = <<>> /\ objective = 0 /\ accepted = FALSE

\* main, step 2: initial_schedule = solve_initial_model(REQUEST_CSV_PATH)
SolveInitial ==
    /\ pc = "start"
    /\ \E r \in solve_initial_model(Data1) :
        IF r.error # "none"
        THEN /\ pc' = "crashed" /\ error' = r.error
             /\ UNCHANGED <<status, initial_schedule>>
        ELSE /\ pc' = "initial" /\ status' = r.status /\ initial_schedule' = r.df
             /\ UNCHANGED error
    /\ UNCHANGED <<nurses, num_days, shift_types, requests, weights, status_inner, initial_df,
                   status2, final_schedule, violations, cand, sat, sched, soft>>

\* main, step 3, first half: optimize_final_schedule runs solve_initial_model
\* again for its anchor
OptimizeAnchor ==
    /\ pc = "initial"
    /\ \E r \in solve_initial_model(Data1) :
        IF r.error # "none"
        THEN /\ pc' = "crashed" /\ error' = r.error
             /\ UNCHANGED <<status_inner, initial_df>>
        ELSE /\ pc' = "anchor" /\ status_inner' = r.status /\ initial_df' = r.df
             /\ UNCHANGED error
    /\ UNCHANGED <<nurses, num_days, shift_types, requests, weights, status, initial_schedule,
                   status2, final_schedule, violations, cand, sat, sched, soft>>

\* main, step 3, second half: the Phase 2 build, solve and extraction
OptimizeFinal ==
    /\ pc = "anchor"
    /\ \E r \in optimize_final_schedule(Data2) :
        IF r.error # "none"
        THEN /\ pc' = "crashed" /\ error' = r.error
             /\ UNCHANGED <<status2, final_schedule>>
        ELSE /\ pc' = "final" /\ status2' = r.status /\ final_schedule' = r.df
             /\ UNCHANGED error
    /\ UNCHANGED <<nurses, num_days, shift_types, requests, weights, status, initial_schedule,
                   status_inner, initial_df, violations, cand, sat, sched, soft>>

\* main, steps 4 and 5: the schedule is written out and validated
Validate ==
    /\ pc = "final"
    /\ violations' = validate_constraints(final_schedule, Data1)
    /\ pc' = "done"
    /\ UNCHANGED <<nurses, num_days, shift_types, requests, weights, error, status,
                   initial_schedule, status_inner, initial_df, status2, final_schedule,
                   cand, sat, sched, soft>>

Next == SolveInitial \/ OptimizeAnchor \/ OptimizeFinal \/ Validate

Spec == Init /\ [][Next]_vars

-----------------------------------------------------------------------------
(* The hard model as a function of its data: a candidate valuation of the  *)
(* cube is checked against the constraints build_hard_constraints adds,    *)
(* group by group, and read by the extraction loop                         *)

MaxDaysC == 2

RostersC == {<<"Hiwatashi">>, <<"Miyoshi", "Hiwatashi">>}

Groups == {"H1", "H2", "H3", "H4", "H5", "H6", "H7", "H8", "H9", "H10", "H11"}

\* The indicators a cell of a candidate may have true
CellPool == {{}, {"kyu"}, {"yoru"}, {"batsu"}}

\* Candidates: every cell from CellPool, cell (1, 1) possibly with "kyu" and
\* "yoru" both true
Candidates(ns, nd) ==
    LET cells == (1..Len(ns)) \X (1..nd)
        pools == [p \in cells |-> IF p = <<1, 1>> THEN CellPool \cup {{"kyu", "yoru"}} ELSE CellPool]
    IN  {UNION {{<<p[1], p[2], Index(SHIFT_TYPES, c)>> : c \in f[p]} : p \in cells} :
            f \in {g \in [cells -> CellPool \cup {{"kyu", "yoru"}}] : \A p \in cells : g[p] \in pools[p]}}

\* Request tables: a nurse of the roster may have no row, a day no column;
\* rows of people outside the roster occur; the first nurse's cells are null,
\* a code of the enumeration or some other text, the other nurses' null or a code
ReqValues == {NaN, "yoru", "??"}
RequestTablesC(ns, nd) ==
    {Table(index, columns,
           [p \in index \X columns |->
               IF p[1] = ns[1] THEN c ELSE IF p[1] \in Range(ns) THEN e ELSE "kyu"]) :
        index \in {{}, {ns[1]}, Range(ns) \cup {"Stranger"}},
        columns \in {{1}, 1..nd},
        c \in ReqValues, e \in {NaN, "kyu"}}

\* The groups all of whose constraints valuation v satisfies
SatGroups(cons, v) == Groups \ {c.g : c \in {k \in cons : ~LinSat(k, v)}}

InitC ==
    /\ nurses \in RostersC
    /\ num_days \in 1..MaxDaysC
    /\ shift_types = SHIFT_TYPES
    /\ requests \in RequestTablesC(nurses, num_days)
    /\ cand \in Candidates(nurses, num_days)
    /\ weights = <<w1, w2, w3, w4, w5>>
    /\ pc = "candidate"
    /\ error = "none"
    /\ status = "none" /\ status_inner = "none" /\ status2 = "none"
    /\ initial_schedule = NoFrame /\ initial_df = NoFrame /\ final_schedule = NoFrame
    /\ violations = <<>>
    /\ sat = {} /\ sched = NoFrame
    /\ night_shift_preferred = NIGHT_SHIFT_PREFERRED
    /\ flags = <<>> /\ objective = 0 /\ accepted = FALSE

\* build_hard_constraints on the data, then the candidate against each group
\* and through the extraction loop
Examine ==
    /\ pc = "candidate"
    /\ IF BuildError(Data1) # "none"
       THEN /\ pc' = "crashed" /\ error' = BuildError(Data1)
            /\ UNCHANGED <<sat, sched>>
       ELSE /\ pc' = "examined"
            /\ sat' = SatGroups(build_hard_constraints(Data1), cand)
            /\ sched' = Extract(cand, Data1)
            /\ UNCHANGED error
    /\ UNCHANGED <<nurses, num_days, shift_types, requests, weights, status, initial_schedule,
                   status_inner, initial_df, status2, final_schedule, violations, cand, soft>>

NextC == Examine

SpecC == InitC /\ [][NextC]_vars

-----------------------------------------------------------------------------
(* validate_constraints as a function of its schedule                      *)

MaxDaysV == 4

RostersV == {<<"Hiwatashi">>, <<"Hiwatashi", "Nakayama">>}

\* The codes of a schedule handed to the validator: three of the
\* enumeration, the blank and a text outside the enumeration
CodePool == {"kyu", "yoru", "batsu", Blank, "??"}

InitV ==
    /\ nurses \in RostersV
    /\ num_days \in 1..(MaxDaysV - (Len(nurses) - 1))
    /\ shift_types = SHIFT_TYPES
    /\ requests = NoRequests
    /\ final_schedule \in [1..Len(nurses) -> [1..num_days -> CodePool]]
    /\ weights = <<w1, w2, w3, w4, w5>>
    /\ pc = "final"
    /\ error = "none"
    /\ status = "none" /\ status_inner = "none" /\ status2 = "none"
    /\ initial_schedule = NoFrame /\ initial_df = NoFrame
    /\ violations = <<>>
    /\ cand = {} /\ sat = {} /\ sched = NoFrame
    /\ night_shift_preferred = NIGHT_SHIFT_PREFERRED
    /\ flags = <<>> /\ objective = 0 /\ accepted = FALSE

NextV == Validate

SpecV == InitV /\ [][NextV]_vars

-----------------------------------------------------------------------------
(* add_soft_constraints as a function of its data: the objective and the   *)
(* constraints of S4 under a valuation of the cube and of S4's flags       *)

MaxDaysS == 2

RostersS == {<<"Hiwatashi">>, <<"Hiwatashi", "Nakayama">>}

\* The indicators a cell of a valuation may have true
PoolS == {{}, {"kyu"}, {"yoru"}, {"4"}}

ValuationsS(ns, nd) ==
    LET cells == (1..Len(ns)) \X (1..nd)
    IN  {UNION {{<<p[1], p[2], Index(SHIFT_TYPES, c)>> : c \in f[p]} : p \in cells} :
            f \in [cells -> PoolS]}

\* The lists of night-preferring staff: every selection of the roster, in its order
PreferredLists(ns) == {SelectSeq(ns, LAMBDA e : e \in sel) : sel \in SUBSET Range(ns)}

\* The anchors: the all-rest frame, the blank frame, a frame of nights
AnchorsS(ns, nd) == {[n \in 1..Len(ns) |-> [d \in 1..nd |-> c]] : c \in {"kyu", Blank, "yoru"}}

FlagValues == [four_penalty : BOOLEAN, has_night : BOOLEAN, no_four : BOOLEAN]

InitS ==
    /\ nurses \in RostersS
    /\ num_days \in 1..(MaxDaysS - (Len(nurses) - 1))
    /\ shift_types = SHIFT_TYPES
    /\ requests = NoRequests
    /\ cand \in ValuationsS(nurses, num_days)
    /\ night_shift_preferred \in PreferredLists(nurses)
    /\ initial_df \in AnchorsS(nurses, num_days)
    /\ flags \in [1..Len(nurses) -> FlagValues]
    /\ weights = <<w1, w2, w3, w4, w5>>
    /\ pc = "soft"
    /\ error = "none"
    /\ status = "none" /\ status_inner = "none" /\ status2 = "none"
    /\ initial_schedule = NoFrame /\ final_schedule = NoFrame
    /\ violations = <<>>
    /\ sat = {} /\ sched = NoFrame
    /\ objective = 0 /\ accepted = FALSE

\* add_soft_constraints on the data: the expression it minimizes, valued
\* under cand, and its S4 constraints on cand and flags
Evaluate ==
    /\ pc = "soft"
    /\ pc' = "evaluated"
    /\ objective' = weighted_penalties(cand, Data2)
    /\ accepted' = S4Holds(cand, Data2, flags)
    /\ UNCHANGED <<nurses, num_days, shift_types, requests, error, status, initial_schedule,
                   status_inner, initial_df, status2, final_schedule, violations, weights,
                   cand, sat, sched, night_shift_preferred, flags>>

NextS == Evaluate

SpecS == InitS /\ [][NextS]_vars

-----------------------------------------------------------------------------
(* Properties of the run of main.py (Spec)                                 *)

\* main holds the frame solve_initial_model returned / optimize_final_schedule
\* holds its anchor / main holds the frame optimize_final_schedule returned
Returned1 == pc \in {"initial", "anchor", "final", "done"}
ReturnedAnchor == pc \in {"anchor", "final", "done"}
Returned2 == pc \in {"final", "done"}

\* Every cell of df holds a code of the enumeration
Total(df) ==
    \A n \in 1..Len(nurses) : \A d \in 1..num_days : In(df[n][d], shift_types)

\* C1: every schedule solve_initial_model and optimize_final_schedule return
\* is total, whatever the backend's status: each cell holds a code of
\* SHIFT_TYPES, none is blank.
C1_SchedulesTotal ==
    /\ Returned1 => Total(initial_schedule)
    /\ ReturnedAnchor => Total(initial_df)
    /\ Returned2 => Total(final_schedule)

\* C2: whenever the hard model has no solution for the backend to hand over,
\* solve_initial_model returns the all-rest schedule, and a failed solve is
\* never raised as an error.
C2_Phase1Fallback ==
    /\ error # "RuntimeError"
    /\ (Returned1 /\ Solutions(build_hard_constraints(Data1), Data1) = {})
          => initial_schedule = AllRest(Data1)

\* C3: optimize_final_schedule returns a schedule only after a backend status
\* OPTIMAL or FEASIBLE; any other status ends in a failure signal instead of
\* a normal return.
C3_Phase2FailureSignalled ==
    Returned2 => status2 \in {"OPTIMAL", "FEASIBLE"}

\* Exactly one nurse holds the night code on every day of df
OneNightPerDay(df) ==
    \A d \in 1..num_days : Cardinality({n \in 1..Len(nurses) : df[n][d] = "yoru"}) = 1

\* C4: in every schedule the pipeline produces (Phase 1's and the final one)
\* exactly one nurse holds the night code on each day.
C4_OneNightEveryDay ==
    /\ Returned1 => OneNightPerDay(initial_schedule)
    /\ ReturnedAnchor => OneNightPerDay(initial_df)
    /\ Returned2 => OneNightPerDay(final_schedule)

VisitCodes == {"/hou", "hou"}

\* C9: once build_hard_constraints has returned for a roster with Kubo and a
\* period with a second Thursday, that Thursday is day 11 and the model pins
\* Kubo's indicator of the visit code on it to true.
C9_VisitPinned ==
    (pc \notin {"start", "crashed"} /\ In("Kubo", nurses) /\ second_thu(Data1) # 0)
       => /\ second_thu(Data1) = 11
          /\ \E c \in build_hard_constraints(Data1) : \E s \in 1..Len(shift_types) :
                /\ shift_types[s] \in VisitCodes
                /\ c.kind = "eq" /\ c.rhs = 1 /\ c.neg = {}
                /\ c.pos = {<<Index(nurses, "Kubo"), 11, s>>}

\* The codes build_hard_constraints looks up for its rules
ExpectedCodes == {"yoru", "batsu", "hayabi", "zanbi", "hou", "2/", "CT", "2"} \cup outpatient

\* C10: build_hard_constraints returns only when every code it looks up is
\* in the enumeration; with one missing it fails instead of leaving the
\* constraint out.
C10_MissingCodeFails ==
    (pc # "start" /\ error \notin {"KeyError", "ValueError"})
       => ExpectedCodes \subseteq Range(shift_types)

\* The shipped roster with the shipped enumeration
Shipped == nurses = NURSES /\ shift_types = SHIFT_TYPES

\* H1, H3 and H10 leave Kubo no code on day d
KuboHasNoCode(d) ==
    \A s \in Ss(Data1) :
        \E c \in H3(Data1) \cup H10(Data1) :
            c.kind = "eq" /\ c.rhs = 0 /\ c.neg = {} /\ c.pos = {<<NurseIdx(Data1, "Kubo"), d, s>>}

\* H10 forbids Kubo the rest code on every day
KuboNeverRests ==
    \A d \in Days(Data1) :
        \E c \in H10(Data1) :
            c.kind = "eq" /\ c.rhs = 0 /\ c.pos = {<<NurseIdx(Data1, "Kubo"), d, rest_idx(Data1)>>}

\* The hard model of the shipped roster has no solution, for the reasons given
ShippedInfeasible ==
    /\ \A d \in Days(Data1) : Wd(d) \in {"Thu", "Sat", "Sun"} => KuboHasNoCode(d)
    /\ KuboNeverRests
    /\ Solutions(build_hard_constraints(Data1), Data1) = {}

\* C12: with the shipped roster the hard model has no feasible schedule for
\* any request table (Kubo's whitelist leaves no code on Thursdays, Sundays
\* and Saturdays and no rest day), and therefore every run of Phase 1
\* returns the all-rest fallback and every run of Phase 2 returns a schedule
\* with no assigned cell.
C12_ShippedAlwaysFallsBack ==
    (Shipped /\ pc # "start") =>
        /\ pc # "crashed"
        /\ Returned1 => initial_schedule = AllRest(Data1)
        /\ ReturnedAnchor => initial_df = AllRest(Data1)
        /\ Returned2 => final_schedule = BlankFrame(Data1)
        /\ ShippedInfeasible

-----------------------------------------------------------------------------
(* Properties of the hard model on candidate valuations (SpecC)            *)

\* In the extracted schedule every night before the last day is followed by off
NightThenOff ==
    \A n \in 1..Len(nurses) : \A d \in 1..(num_days - 1) :
        sched[n][d] = "yoru" => sched[n][d + 1] = "batsu"

\* C5: a valuation with one code per cell meets the night-rest constraints
\* exactly when, in the schedule read from it, every night on a day d < N is
\* followed by off on d + 1: the rule demands that implication and nothing
\* more (off without a night before it, and a night on day N, are admitted),
\* and no night-rest constraint reaches past day N.
C5_NightRestImplication ==
    pc = "examined" =>
        /\ "H1" \in sat => ("H6" \in sat <=> NightThenOff)
        /\ \A c \in H6(Data1) : \A v \in c.pos \cup c.neg : v[2] \in 1..num_days

\* A valuation that meets H1 and H6 with a night followed by off, an off not
\* preceded by that nurse's night, and a night on the last day
C5_Witness ==
    /\ pc = "examined" /\ {"H1", "H6"} \subseteq sat
    /\ \E n \in 1..Len(nurses) : \E d \in 1..(num_days - 1) :
          sched[n][d] = "yoru" /\ sched[n][d + 1] = "batsu"
    /\ \E n \in 1..Len(nurses) : \E d \in 1..num_days :
          sched[n][d] = "batsu" /\ (d = 1 \/ sched[n][d - 1] # "yoru")
    /\ \E n \in 1..Len(nurses) : sched[n][num_days] = "yoru"

\* Nurse n has a row, day d a column, and the cell holds a code of the enumeration
ValidRequest(n, d) ==
    /\ nurses[n] \in requests.index
    /\ d \in requests.columns
    /\ requests.val[<<nurses[n], d>>] # NaN
    /\ requests.val[<<nurses[n], d>>] \in Range(shift_types)

\* The extracted schedule holds the requested code in every validly requested cell
RequestsHonoured ==
    \A n \in 1..Len(nurses) : \A d \in 1..num_days :
        ValidRequest(n, d) => sched[n][d] = requests.val[<<nurses[n], d>>]

\* C6: the build raises nothing on any request table, and a valuation with
\* one code per cell meets the request constraints exactly when the schedule
\* read from it holds the requested code in every cell whose request is
\* present and a code of the enumeration: a nurse without a row, a day
\* without a column, a null cell and a text outside the enumeration
\* constrain nothing.
C6_RequestPinning ==
    /\ pc # "crashed"
    /\ pc = "examined" => ("H1" \in sat => ("H9" \in sat <=> RequestsHonoured))

\* A valuation that meets H1 and H9 where one requested cell is pinned and a
\* cell of a nurse without a row, or of a day without a column, or with a
\* null or foreign request, holds a code freely
C6_Witness ==
    /\ pc = "examined" /\ {"H1", "H9"} \subseteq sat
    /\ \E n \in 1..Len(nurses) : \E d \in 1..num_days : ValidRequest(n, d)
    /\ \E n \in 1..Len(nurses) : nurses[n] \notin requests.index
    /\ \E d \in 1..num_days : d \notin requests.columns

-----------------------------------------------------------------------------
(* Properties of validate_constraints (SpecV)                              *)

InvalidCell(n, d) == final_schedule[n][d] \notin Range(shift_types)
NightGap(n, d) ==
    d < num_days /\ final_schedule[n][d] = "yoru" /\ final_schedule[n][d + 1] # "batsu"

\* How often violation r is in the list
Occurrences(r) == Cardinality({i \in 1..Len(violations) : violations[i] = r})

\* Violation a comes before b: by nurse, then membership before night-rest,
\* then by day
Before(a, b) ==
    LET na == Index(nurses, a.nurse)
        nb == Index(nurses, b.nurse)
        ka == IF a.kind = "invalid" THEN 0 ELSE 1
        kb == IF b.kind = "invalid" THEN 0 ELSE 1
    IN  \/ na < nb
        \/ na = nb /\ ka < kb
        \/ na = nb /\ ka = kb /\ a.day < b.day

\* C7: validate_constraints lists exactly one violation per cell whose code
\* is outside SHIFT_TYPES and exactly one per (nurse, d < last day) with a
\* night on d and no off on d + 1, naming the nurse and day d + 1; nothing
\* else; ordered by nurse, membership violations before night-rest ones, each
\* in day order; so the list is empty exactly when there is no such cell.
C7_ValidatorExact ==
    pc = "done" =>
        /\ \A n \in 1..Len(nurses) : \A d \in 1..num_days :
              Occurrences(Viol("invalid", nurses[n], d, final_schedule[n][d]))
                 = IF InvalidCell(n, d) THEN 1 ELSE 0
        /\ \A n \in 1..Len(nurses) : \A d \in 1..num_days :
              Occurrences(Viol("night", nurses[n], d + 1, "batsu"))
                 = IF NightGap(n, d) THEN 1 ELSE 0
        /\ Len(violations)
              = Cardinality({p \in (1..Len(nurses)) \X (1..num_days) : InvalidCell(p[1], p[2])})
                + Cardinality({p \in (1..Len(nurses)) \X (1..num_days) : NightGap(p[1], p[2])})
        /\ \A i \in 1..Len(violations) : \A j \in 1..Len(violations) :
              i < j => Before(violations[i], violations[j])
        /\ (violations = <<>>) <=>
              \A n \in 1..Len(nurses) : \A d \in 1..num_days :
                  ~InvalidCell(n, d) /\ ~NightGap(n, d)

\* A schedule of valid codes with a night on day 3 and a rest on day 4 for one
\* nurse, and no other gap: one violation, naming that nurse and day 4
C7_Witness ==
    /\ pc = "done" /\ num_days >= 4
    /\ \A n \in 1..Len(nurses) : \A d \in 1..num_days : ~InvalidCell(n, d)
    /\ final_schedule[1][3] = "yoru" /\ final_schedule[1][4] = "kyu"
    /\ \A d \in 1..num_days : d # 3 => ~NightGap(1, d)
    /\ violations = <<Viol("night", nurses[1], 4, "batsu")>>

-----------------------------------------------------------------------------
(* Properties of add_soft_constraints (SpecS)                              *)

\* The sum of a group of penalty terms
GroupSum(pens) == SumSeq([i \in 1..Len(pens) |-> pens[i].val])

\* C11: the minimized objective is w1 * (sum of the S1 terms) + w2 * (sum of
\* the S2 terms) + w3 * (sum of the S3 terms) + w4 * (sum of the S4 flags)
\* + w5 * (sum of the S5 flags) with weights 3, 2, 1, 2, 1: every term once,
\* with the weight of its own group, for any roster and any list of
\* night-preferring staff, the empty one included.
C11_ObjectiveGrouped ==
    pc = "evaluated" =>
        objective = 3 * GroupSum(S1(cand, Data2)) + 2 * GroupSum(S2(cand, Data2))
                    + 1 * GroupSum(S3(cand, Data2)) + 2 * GroupSum(S4(cand, Data2))
                    + 1 * GroupSum(S5(cand, Data2))

\* C13: in every assignment that meets the constraints S4 adds, for every
\* nurse n the flag four_penalty_n is true exactly when n has at least one
\* night and no "4" over the period, has_night_n is true exactly when the
\* night count is at least 1, and no_four_n exactly when the count of "4"
\* is 0.
C13_CompoundFlag ==
    (pc = "evaluated" /\ accepted) =>
        \A n \in 1..Len(nurses) :
            /\ flags[n].has_night <=> (night_count(cand, Data2, n) >= 1)
            /\ flags[n].no_four <=> (four_count(cand, Data2, n) = 0)
            /\ flags[n].four_penalty <=>
                  (night_count(cand, Data2, n) >= 1 /\ four_count(cand, Data2, n) = 0)

\* An accepted assignment where one nurse has a night and no "4" and carries
\* the flag, and another nurse does not carry it
C13_Witness ==
    /\ pc = "evaluated" /\ accepted
    /\ \E n \in 1..Len(nurses) :
          /\ flags[n].four_penalty
          /\ night_count(cand, Data2, n) >= 1 /\ four_count(cand, Data2, n) = 0
    /\ \E m \in 1..Len(nurses) : ~flags[m].four_penalty

====
